---- MODULE Spec2Model ----
(***************************************************************************)
(* Grid-world simulation and learning-update engine of rl-visual-learner:  *)
(* constants.ts (grid construction), services/rlService.ts (transition     *)
(* model, value iteration, greedy / epsilon-greedy selection, Q-Learning   *)
(* and SARSA updates) and App.tsx (the simulation driver: tabs, reset,     *)
(* stepMDP, stepRL).                                                       *)
(*                                                                         *)
(* Numbers.  The program computes in IEEE doubles.  Here a utility, a      *)
(* reward or a Q-value x is the integer x * Scale (fixed point), the       *)
(* parameters gamma, alpha, epsilon and the slip probabilities are counted *)
(* in tenths, and a product by such a parameter is rounded down to the     *)
(* next multiple of 1/Scale.  A value Math.random() returns is k/RandScale *)
(* for an integer k in 0..RandScale-1.                                     *)
(***************************************************************************)
EXTENDS Integers, Sequences, FiniteSets, TLC

VARIABLES
    activeTab,   \* App: useState<Tab>
    grid,        \* App: useState<Grid>; in the function specifications, the grid object passed in
    agent,       \* App: useState<AgentState | null>; <<>> is null, <<a>> an agent state
    iteration,   \* App: useState(0)
    lastStep,    \* locals of the most recent stepRL that ran an update (history), <<>> if none
    stepsLeft,   \* stepRL calls the exploration may still make before the next reset
    call,        \* function specifications: the arguments of the call under study
    ret          \* function specifications: <<>> before the call, <<value>> after it

vars == <<activeTab, grid, agent, iteration, lastStep, stepsLeft, call, ret>>

----------------------------------------------------------------------------
(* Bounds of the model *)

Scale == 1000000        \* fixed-point resolution: 1.0 is Scale
RandScale == 11         \* Math.random() ranges over k/RandScale, k in 0..RandScale-1
MaxSweeps == 100        \* value-iteration sweeps explored
MaxStepsTD == 5         \* stepRL calls explored after a reset in the TD tab
MaxStepsQ == 2          \* stepRL calls explored after a reset in the Q-Learning tab
MaxStepsSARSA == 2      \* stepRL calls explored after a reset in the SARSA tab
MaxEpisodeSteps == 1    \* stepRL calls explored after a replayed run of SpecEpisode

----------------------------------------------------------------------------
(* types.ts, constants.ts *)

ROWS == 3
COLS == 4

NULL == "null"

Action == {"UP", "DOWN", "LEFT", "RIGHT"}
\* ACTIONS of constants.ts (ACTIONS is a reserved word here)
ActionList == <<"UP", "DOWN", "LEFT", "RIGHT">>

Tab == {"MDP", "TD_ADP", "Q_LEARNING", "SARSA"}

Rows == 0 .. (ROWS - 1)
Cols == 0 .. (COLS - 1)

\* Math.random(): the draws k, standing for k / RandScale
Rands == 0 .. (RandScale - 1)

\* p tenths of the fixed-point value x, rounded down
Tenths(p, x) == (p * x) \div 10

\* INITIAL_PARAMS, gamma, alpha and epsilon in tenths, rewardStep in hundredths
INITIAL_gamma == 9
INITIAL_alpha == 1
INITIAL_epsilon == 2
INITIAL_rewardStep == -4

\* a reward given in hundredths, as a fixed-point value
Hundredths(h) == (h * Scale) \div 100

ZeroQ == [a \in Action |-> 0]

createInitialGrid(stepReward) ==
    [r \in Rows |-> [c \in Cols |->
        LET type == IF r = 1 /\ c = 1 THEN "WALL"
                    ELSE IF r = 0 /\ c = 3 THEN "TERMINAL"
                    ELSE IF r = 1 /\ c = 3 THEN "TERMINAL"
                    ELSE IF r = 2 /\ c = 0 THEN "START"
                    ELSE "EMPTY"
            reward == IF r = 1 /\ c = 1 THEN 0
                      ELSE IF r = 0 /\ c = 3 THEN Scale
                      ELSE IF r = 1 /\ c = 3 THEN -Scale
                      ELSE Hundredths(stepReward)
        IN [row |-> r, col |-> c, type |-> type, reward |-> reward,
            utility |-> 0, qValues |-> ZeroQ, policy |-> NULL, visitCount |-> 0]]]

----------------------------------------------------------------------------
(* rlService.ts: transition model *)

\* the test on the action is inverted: a vertical action gets the vertical pair
getOrthogonalActions_inverted(action) ==
    IF action = "UP" \/ action = "DOWN" THEN <<"UP", "DOWN">>
    ELSE <<"LEFT", "RIGHT">>

getOrthogonalActions(action) ==
    IF action = "UP" \/ action = "DOWN" THEN <<"LEFT", "RIGHT">>
    ELSE <<"UP", "DOWN">>

\* the direction getNextState executes: rand > 0.8 slips, rand > 0.9 to the first orthogonal
intendedAction(action, isStochastic, rand) ==
    IF isStochastic /\ rand * 10 > 8 * RandScale
    THEN IF rand * 10 > 9 * RandScale
         THEN getOrthogonalActions(action)[1]
         ELSE getOrthogonalActions(action)[2]
    ELSE action

\* row 0 is taken for the bottom row: UP adds a row and DOWN takes one away
dRow_flipped(a) == IF a = "UP" THEN 1 ELSE IF a = "DOWN" THEN -1 ELSE 0

dRow(a) == IF a = "UP" THEN -1 ELSE IF a = "DOWN" THEN 1 ELSE 0
dCol(a) == IF a = "LEFT" THEN -1 ELSE IF a = "RIGHT" THEN 1 ELSE 0

\* the bounds are tested with > where the code has >=
getNextState_offByOne(g, row, col, action, isStochastic, rand) ==
    LET ia == intendedAction(action, isStochastic, rand)
        newRow == row + dRow(ia)
        newCol == col + dCol(ia)
    IN IF newRow < 0 \/ newRow > ROWS \/ newCol < 0 \/ newCol > COLS
       THEN [nextRow |-> row, nextCol |-> col]
       ELSE IF newRow < ROWS /\ newCol < COLS /\ g[newRow][newCol].type = "WALL"
            THEN [nextRow |-> row, nextCol |-> col]
            ELSE [nextRow |-> newRow, nextCol |-> newCol]

\* a WALL cell is entered like any other
getNextState_noWall(g, row, col, action, isStochastic, rand) ==
    LET ia == intendedAction(action, isStochastic, rand)
        newRow == row + dRow(ia)
        newCol == col + dCol(ia)
    IN IF newRow < 0 \/ newRow >= ROWS \/ newCol < 0 \/ newCol >= COLS
       THEN [nextRow |-> row, nextCol |-> col]
       ELSE [nextRow |-> newRow, nextCol |-> newCol]

getNextState(g, row, col, action, isStochastic, rand) ==
    LET ia == intendedAction(action, isStochastic, rand)
        newRow == row + dRow(ia)
        newCol == col + dCol(ia)
    IN IF newRow < 0 \/ newRow >= ROWS \/ newCol < 0 \/ newCol >= COLS
       THEN [nextRow |-> row, nextCol |-> col]
       ELSE IF g[newRow][newCol].type = "WALL"
            THEN [nextRow |-> row, nextCol |-> col]
            ELSE [nextRow |-> newRow, nextCol |-> newCol]

----------------------------------------------------------------------------
(* rlService.ts: value iteration *)

\* let maxUtility = -Infinity: below every value the model computes
NegInfinity == -2147483647

\* JSON.parse(JSON.stringify(grid)): a grid of fresh cells; every number the
\* program stores is finite, and a finite double, a string and null each
\* survive the round trip
JsonCopy(g) ==
    [r \in Rows |-> [c \in Cols |->
        [row |-> g[r][c].row, col |-> g[r][c].col, type |-> g[r][c].type,
         reward |-> g[r][c].reward, utility |-> g[r][c].utility,
         qValues |-> [a \in Action |-> g[r][c].qValues[a]],
         policy |-> g[r][c].policy, visitCount |-> g[r][c].visitCount]]]

\* the three moves of an action with their probabilities in tenths
moves(action) ==
    << [act |-> action, prob |-> 8],
       [act |-> getOrthogonalActions(action)[1], prob |-> 1],
       [act |-> getOrthogonalActions(action)[2], prob |-> 1] >>

RECURSIVE expectedUtility(_, _, _, _, _)
\* the loop over moves, from move i on: expectedUtility += move.prob * destCell.utility
expectedUtility(g, r, c, action, i) ==
    IF i > Len(moves(action)) THEN 0
    ELSE LET move == moves(action)[i]
             outcome == getNextState(g, r, c, move.act, FALSE, 0)
             destCell == g[outcome.nextRow][outcome.nextCol]
         IN Tenths(move.prob, destCell.utility) + expectedUtility(g, r, c, action, i + 1)

RECURSIVE bellmanMax(_, _, _, _, _)
\* the loop over ACTIONS, from action i on, with the running maxUtility and bestAction
bellmanMax(g, r, c, i, acc) ==
    IF i > Len(ActionList) THEN acc
    ELSE LET eu == expectedUtility(g, r, c, ActionList[i], 1)
         IN bellmanMax(g, r, c, i + 1,
                       IF eu > acc.maxUtility
                       THEN [maxUtility |-> eu, bestAction |-> ActionList[i]]
                       ELSE acc)

\* the body of the loop over cells: reads grid g, writes newGrid n
sweepCell(g, n, r, c, gamma) ==
    LET cell == g[r][c] IN
    IF cell.type = "WALL" THEN n
    ELSE IF cell.type = "TERMINAL"
    THEN [n EXCEPT ![r][c].utility = cell.reward]
    ELSE LET best == bellmanMax(g, r, c, 1, [maxUtility |-> NegInfinity, bestAction |-> NULL])
         IN [n EXCEPT ![r][c].utility = cell.reward + Tenths(gamma, best.maxUtility),
                      ![r][c].policy = best.bestAction]

RECURSIVE sweepLoop(_, _, _, _, _)
\* the loops over r and c in row-major order, from cell k on.  g is the grid
\* object passed in and n is newGrid; when the two share their cells (shared),
\* a write to a cell of n is a write to that cell of g.
sweepLoop(g, n, k, gamma, shared) ==
    IF k >= ROWS * COLS THEN [grid |-> g, newGrid |-> n]
    ELSE LET n2 == sweepCell(g, n, k \div COLS, k % COLS, gamma)
         IN sweepLoop(IF shared THEN n2 ELSE g, n2, k + 1, gamma, shared)

\* a sweep over a copy that shares its cells with the grid passed in
performValueIterationStep_shallow(g, gamma) ==
    sweepLoop(g, g, 0, gamma, TRUE)

\* the sweep never pins a TERMINAL cell
performValueIterationStep_nopin(g, gamma) ==
    LET out == sweepLoop(g, JsonCopy(g), 0, gamma, FALSE)
    IN [out EXCEPT !.newGrid = [r \in Rows |-> [c \in Cols |->
           IF g[r][c].type = "TERMINAL" THEN g[r][c] ELSE out.newGrid[r][c]]]]

\* performValueIterationStep: newGrid is the grid returned, grid the grid
\* object passed in as the call leaves it
performValueIterationStep(g, gamma) ==
    sweepLoop(g, JsonCopy(g), 0, gamma, FALSE)

----------------------------------------------------------------------------
(* rlService.ts: action selection *)

RECURSIVE greedyScan(_, _, _)
\* the loop over ACTIONS, from action i on, with the running maxQ and bestActions
greedyScan(cell, i, acc) ==
    IF i > Len(ActionList) THEN acc
    ELSE LET action == ActionList[i] IN
         greedyScan(cell, i + 1,
             IF cell.qValues[action] > acc.maxQ
             THEN [maxQ |-> cell.qValues[action], bestActions |-> <<action>>]
             ELSE IF cell.qValues[action] = acc.maxQ
             THEN [acc EXCEPT !.bestActions = Append(@, action)]
             ELSE acc)

\* Math.floor(Math.random() * n) for the draw rand, as a 1-based index
randomIndex(rand, n) == ((rand * n) \div RandScale) + 1

\* the tie is resolved by iteration order: the first of bestActions is returned
getGreedyAction_firstBest(cell, rand) ==
    LET bestActions == greedyScan(cell, 1, [maxQ |-> NegInfinity, bestActions |-> <<>>]).bestActions
    IN bestActions[1]

getGreedyAction(cell, rand) ==
    LET bestActions == greedyScan(cell, 1, [maxQ |-> NegInfinity, bestActions |-> <<>>]).bestActions
    IN bestActions[randomIndex(rand, Len(bestActions))]

\* rand1 is the draw compared with epsilon, rand2 the draw that picks the action
getEpsilonGreedyAction(cell, epsilon, rand1, rand2) ==
    IF rand1 * 10 < epsilon * RandScale
    THEN ActionList[randomIndex(rand2, Len(ActionList))]
    ELSE getGreedyAction(cell, rand2)

\* Math.max(...Object.values(qValues))
maxQValue(qValues) ==
    CHOOSE m \in {qValues[a] : a \in Action} : \A a \in Action : qValues[a] <= m

----------------------------------------------------------------------------
(* rlService.ts: Q-Learning and SARSA updates.  newGrid = [...grid] shares   *)
(* its cells with grid, so the grid returned is also what the grid passed   *)
(* in has become.  rand is the draw of getGreedyAction's tie break.          *)

\* the three writes to cell s: qValues[a], utility, policy
\* the policy is chosen before qValues[a] is written
writeQ_stalePolicy(g, s, a, newQ, rand) ==
    LET q2 == [g[s.r][s.c].qValues EXCEPT ![a] = newQ]
        g2 == [g EXCEPT ![s.r][s.c].qValues = q2, ![s.r][s.c].utility = maxQValue(q2)]
    IN [g2 EXCEPT ![s.r][s.c].policy = getGreedyAction(g[s.r][s.c], rand)]

writeQ(g, s, a, newQ, rand) ==
    LET q2 == [g[s.r][s.c].qValues EXCEPT ![a] = newQ]
        g2 == [g EXCEPT ![s.r][s.c].qValues = q2, ![s.r][s.c].utility = maxQValue(q2)]
    IN [g2 EXCEPT ![s.r][s.c].policy = getGreedyAction(g2[s.r][s.c], rand)]

\* the bootstrap of a TERMINAL successor is the terminal's reward
updateQLearning_terminalReward(g, s, a, r, sPrime, alpha, gamma, rand) ==
    LET oldQ == g[s.r][s.c].qValues[a]
        maxQPrime == IF g[sPrime.r][sPrime.c].type = "TERMINAL"
                     THEN g[sPrime.r][sPrime.c].reward
                     ELSE maxQValue(g[sPrime.r][sPrime.c].qValues)
        newQ == oldQ + Tenths(alpha, r + Tenths(gamma, maxQPrime) - oldQ)
    IN writeQ(g, s, a, newQ, rand)

\* the three writes go to the cell moved to
updateQLearning_writesNext(g, s, a, r, sPrime, alpha, gamma, rand) ==
    LET oldQ == g[s.r][s.c].qValues[a]
        maxQPrime == IF g[sPrime.r][sPrime.c].type = "TERMINAL"
                     THEN 0
                     ELSE maxQValue(g[sPrime.r][sPrime.c].qValues)
        newQ == oldQ + Tenths(alpha, r + Tenths(gamma, maxQPrime) - oldQ)
    IN writeQ(g, sPrime, a, newQ, rand)

updateQLearning(g, s, a, r, sPrime, alpha, gamma, rand) ==
    LET oldQ == g[s.r][s.c].qValues[a]
        maxQPrime == IF g[sPrime.r][sPrime.c].type = "TERMINAL"
                     THEN 0
                     ELSE maxQValue(g[sPrime.r][sPrime.c].qValues)
        newQ == oldQ + Tenths(alpha, r + Tenths(gamma, maxQPrime) - oldQ)
    IN writeQ(g, s, a, newQ, rand)

\* the bootstrap is the max over the actions at sPrime, whatever aPrime is
updateSARSA_max(g, s, a, r, sPrime, aPrime, alpha, gamma, rand) ==
    updateQLearning(g, s, a, r, sPrime, alpha, gamma, rand)

updateSARSA(g, s, a, r, sPrime, aPrime, alpha, gamma, rand) ==
    LET oldQ == g[s.r][s.c].qValues[a]
        qPrime == IF g[sPrime.r][sPrime.c].type /= "TERMINAL"
                  THEN g[sPrime.r][sPrime.c].qValues[aPrime]
                  ELSE 0
        newQ == oldQ + Tenths(alpha, r + Tenths(gamma, qPrime) - oldQ)
    IN writeQ(g, s, a, newQ, rand)

----------------------------------------------------------------------------
(* App.tsx: the simulation driver *)

StartAgent == [row |-> 2, col |-> 0, lastAction |-> NULL, totalReward |-> 0]

\* the actions getEpsilonGreedyAction can return, over its two draws
epsilonGreedyActions(cell, epsilon) ==
    {getEpsilonGreedyAction(cell, epsilon, rand1, rand2) : rand1 \in Rands, rand2 \in Rands}

\* the cells getNextState can return in stochastic mode, over its draw
nextStates(g, row, col, action) ==
    {getNextState(g, row, col, action, TRUE, rand) : rand \in Rands}

\* the next actions stepRL can draw for the update: SARSA alone draws one
nextActions(tab, g, next) ==
    IF tab = "SARSA"
    THEN epsilonGreedyActions(g[next.nextRow][next.nextCol], INITIAL_epsilon)
    ELSE {NULL}

\* the TD(0) update writes the utility of the cell moved to
stepRLUpdate_writesNext(tab, g, prevAgent, action, next, nextAction, alpha, gamma, rand) ==
    LET s == [r |-> prevAgent.row, c |-> prevAgent.col]
        sPrime == [r |-> next.nextRow, c |-> next.nextCol]
        nextCell == g[next.nextRow][next.nextCol]
        reward == nextCell.reward
    IN IF tab = "Q_LEARNING"
       THEN updateQLearning(g, s, action, reward, sPrime, alpha, gamma, rand)
       ELSE IF tab = "SARSA"
       THEN updateSARSA(g, s, action, reward, sPrime, nextAction, alpha, gamma, rand)
       ELSE IF tab = "TD_ADP"
       THEN LET currentU == g[s.r][s.c].utility
                nextU == IF nextCell.type = "TERMINAL" THEN nextCell.reward
                         ELSE g[next.nextRow][next.nextCol].utility
                newU == currentU + Tenths(alpha, reward + Tenths(gamma, nextU) - currentU)
            IN [g EXCEPT ![sPrime.r][sPrime.c].utility = newU]
       ELSE g

\* the TD(0) update bootstraps from the stored utility of a TERMINAL cell too
stepRLUpdate_storedUtility(tab, g, prevAgent, action, next, nextAction, alpha, gamma, rand) ==
    LET s == [r |-> prevAgent.row, c |-> prevAgent.col]
        sPrime == [r |-> next.nextRow, c |-> next.nextCol]
        nextCell == g[next.nextRow][next.nextCol]
        reward == nextCell.reward
    IN IF tab = "Q_LEARNING"
       THEN updateQLearning(g, s, action, reward, sPrime, alpha, gamma, rand)
       ELSE IF tab = "SARSA"
       THEN updateSARSA(g, s, action, reward, sPrime, nextAction, alpha, gamma, rand)
       ELSE IF tab = "TD_ADP"
       THEN LET currentU == g[s.r][s.c].utility
                nextU == g[next.nextRow][next.nextCol].utility
                newU == currentU + Tenths(alpha, reward + Tenths(gamma, nextU) - currentU)
            IN [g EXCEPT ![s.r][s.c].utility = newU]
       ELSE g

\* stepRL, step 3: the grid after the update of the active tab.  newGrid =
\* [...grid] shares its cells with the grid state, which the update changes in place.
stepRLUpdate(tab, g, prevAgent, action, next, nextAction, alpha, gamma, rand) ==
    LET s == [r |-> prevAgent.row, c |-> prevAgent.col]
        sPrime == [r |-> next.nextRow, c |-> next.nextCol]
        nextCell == g[next.nextRow][next.nextCol]
        reward == nextCell.reward
    IN IF tab = "Q_LEARNING"
       THEN updateQLearning(g, s, action, reward, sPrime, alpha, gamma, rand)
       ELSE IF tab = "SARSA"
       THEN updateSARSA(g, s, action, reward, sPrime, nextAction, alpha, gamma, rand)
       ELSE IF tab = "TD_ADP"
       THEN LET currentU == g[s.r][s.c].utility
                nextU == IF nextCell.type = "TERMINAL" THEN nextCell.reward
                         ELSE g[next.nextRow][next.nextCol].utility
                newU == currentU + Tenths(alpha, reward + Tenths(gamma, nextU) - currentU)
            IN [g EXCEPT ![s.r][s.c].utility = newU]
       ELSE g

\* the agent keeps moving after it entered a TERMINAL cell
stepRLAgent_noReset(g, prevAgent, action, next) ==
    [row |-> next.nextRow, col |-> next.nextCol, lastAction |-> action,
     totalReward |-> prevAgent.totalReward + g[next.nextRow][next.nextCol].reward]

\* stepRL, step 4: the agent state returned
stepRLAgent(g, prevAgent, action, next) ==
    LET nextCell == g[next.nextRow][next.nextCol]
    IN IF nextCell.type = "TERMINAL"
       THEN [row |-> 2, col |-> 0, lastAction |-> NULL, totalReward |-> 0]
       ELSE [row |-> next.nextRow, col |-> next.nextCol, lastAction |-> action,
             totalReward |-> prevAgent.totalReward + nextCell.reward]

\* the stepRL calls explored after a reset in a tab
MaxSteps(tab) ==
    IF tab = "TD_ADP" THEN MaxStepsTD
    ELSE IF tab = "Q_LEARNING" THEN MaxStepsQ
    ELSE IF tab = "SARSA" THEN MaxStepsSARSA
    ELSE 0

AppInit ==
    /\ activeTab = "MDP"
    /\ grid = createInitialGrid(INITIAL_rewardStep)
    /\ agent = <<>>
    /\ iteration = 0
    /\ lastStep = <<>>
    /\ stepsLeft = MaxSteps("MDP")
    /\ call = <<>>
    /\ ret = <<>>

\* resetSimulation (the Reset Environment button)
resetSimulation ==
    /\ grid' = createInitialGrid(INITIAL_rewardStep)
    /\ iteration' = 0
    /\ agent' = <<>>
    /\ lastStep' = <<>>
    /\ stepsLeft' = MaxSteps(activeTab)
    /\ UNCHANGED <<activeTab, call, ret>>

\* handleTabChange(tab): resetSimulation, then the tab and, in an RL tab, the agent
handleTabChange(tab) ==
    /\ grid' = createInitialGrid(INITIAL_rewardStep)
    /\ iteration' = 0
    /\ activeTab' = tab
    /\ agent' = IF tab /= "MDP" THEN <<StartAgent>> ELSE <<>>
    /\ lastStep' = <<>>
    /\ stepsLeft' = MaxSteps(tab)
    /\ UNCHANGED <<call, ret>>

\* stepMDP (the Step button and the auto-play timer in the MDP tab)
stepMDP ==
    /\ activeTab = "MDP"
    /\ iteration < MaxSweeps
    /\ grid' = performValueIterationStep(grid, INITIAL_gamma).newGrid
    /\ iteration' = iteration + 1
    /\ UNCHANGED <<activeTab, agent, lastStep, stepsLeft, call, ret>>

\* stepRL with no agent: the agent is placed at START, the grid is not touched
stepRLNoAgent ==
    /\ activeTab /= "MDP"
    /\ stepsLeft > 0
    /\ agent = <<>>
    /\ agent' = <<StartAgent>>
    /\ iteration' = iteration + 1
    /\ lastStep' = <<>>
    /\ stepsLeft' = stepsLeft - 1
    /\ UNCHANGED <<activeTab, grid, call, ret>>

\* stepRL with an agent (the Step button and the auto-play timer in an RL tab)
stepRL ==
    /\ activeTab /= "MDP"
    /\ stepsLeft > 0
    /\ agent /= <<>>
    /\ LET prevAgent == agent[1]
           currentCell == grid[prevAgent.row][prevAgent.col]
       IN \E action \in epsilonGreedyActions(currentCell, INITIAL_epsilon) :
          \E next \in nextStates(grid, prevAgent.row, prevAgent.col, action) :
          \E nextAction \in nextActions(activeTab, grid, next) :
          \E newGrid \in {stepRLUpdate(activeTab, grid, prevAgent, action, next, nextAction,
                                       INITIAL_alpha, INITIAL_gamma, tie) : tie \in Rands} :
            /\ grid' = newGrid
            /\ agent' = <<stepRLAgent(grid, prevAgent, action, next)>>
            /\ lastStep' = <<[action |-> action, nextRow |-> next.nextRow,
                              nextCol |-> next.nextCol, nextAction |-> nextAction]>>
    /\ iteration' = iteration + 1
    /\ stepsLeft' = stepsLeft - 1
    /\ UNCHANGED <<activeTab, call, ret>>

AppNext ==
    \/ resetSimulation
    \/ \E tab \in Tab : handleTabChange(tab)
    \/ stepMDP
    \/ stepRLNoAgent
    \/ stepRL

Spec == AppInit /\ [][AppNext]_vars

----------------------------------------------------------------------------
(* The driver continued from a run of stepRL calls.  EpisodeRuns lists, for *)
(* two runs, what each stepRL of the run draws: in the first the agent      *)
(* walks from START to (1,2), the cell next to the -1 terminal, in the       *)
(* second on to (0,2), the cell next to the +1 terminal.                     *)

EpisodeRuns ==
    << << [action |-> "RIGHT", nextRow |-> 2, nextCol |-> 1, nextAction |-> "RIGHT", tie |-> 0],
          [action |-> "RIGHT", nextRow |-> 2, nextCol |-> 2, nextAction |-> "UP", tie |-> 0],
          [action |-> "UP", nextRow |-> 1, nextCol |-> 2, nextAction |-> "RIGHT", tie |-> 0] >>,
       << [action |-> "RIGHT", nextRow |-> 2, nextCol |-> 1, nextAction |-> "RIGHT", tie |-> 0],
          [action |-> "RIGHT", nextRow |-> 2, nextCol |-> 2, nextAction |-> "UP", tie |-> 0],
          [action |-> "UP", nextRow |-> 1, nextCol |-> 2, nextAction |-> "UP", tie |-> 0],
          [action |-> "UP", nextRow |-> 0, nextCol |-> 2, nextAction |-> "RIGHT", tie |-> 0] >> >>

\* whether stepRL can draw ch in the state st of tab
canDraw(tab, st, ch) ==
    LET prevAgent == st.agent
        next == [nextRow |-> ch.nextRow, nextCol |-> ch.nextCol]
    IN /\ ch.action \in epsilonGreedyActions(st.grid[prevAgent.row][prevAgent.col], INITIAL_epsilon)
       /\ next \in nextStates(st.grid, prevAgent.row, prevAgent.col, ch.action)
       /\ tab = "SARSA" => ch.nextAction \in nextActions(tab, st.grid, next)
       /\ ch.tie \in Rands

RECURSIVE replay(_, _, _, _)
\* the states in which the steps i.. of run leave the driver: one state, or
\* none if the run draws what stepRL cannot
replay(tab, st, run, i) ==
    IF i > Len(run) THEN {st}
    ELSE LET ch == run[i]
             next == [nextRow |-> ch.nextRow, nextCol |-> ch.nextCol]
             nextAction == IF tab = "SARSA" THEN ch.nextAction ELSE NULL
         IN IF ~canDraw(tab, st, ch) THEN {}
            ELSE replay(tab,
                   [grid |-> stepRLUpdate(tab, st.grid, st.agent, ch.action, next, nextAction,
                                          INITIAL_alpha, INITIAL_gamma, ch.tie),
                    agent |-> stepRLAgent(st.grid, st.agent, ch.action, next),
                    iteration |-> st.iteration + 1,
                    lastStep |-> [action |-> ch.action, nextRow |-> ch.nextRow,
                                  nextCol |-> ch.nextCol, nextAction |-> nextAction]],
                   run, i + 1)

\* handleTabChange(tab) from the initial state, then the steps of one of the runs
EpisodeInit ==
    \E tab \in Tab \ {"MDP"} :
    \E k \in 1 .. Len(EpisodeRuns) :
    \E st \in replay(tab, [grid |-> createInitialGrid(INITIAL_rewardStep), agent |-> StartAgent,
                           iteration |-> 0, lastStep |-> <<>>], EpisodeRuns[k], 1) :
        /\ activeTab = tab
        /\ grid = st.grid
        /\ agent = <<st.agent>>
        /\ iteration = st.iteration
        /\ lastStep = <<st.lastStep>>
        /\ stepsLeft = MaxEpisodeSteps
        /\ call = <<>>
        /\ ret = <<>>

SpecEpisode == EpisodeInit /\ [][AppNext]_vars

----------------------------------------------------------------------------
(* getNextState as a function: one call on the initial grid, from every     *)
(* cell, for every action, both modes and every draw.                       *)

idle ==
    /\ activeTab = "MDP"
    /\ agent = <<>>
    /\ iteration = 0
    /\ lastStep = <<>>
    /\ stepsLeft = 0

TransitionInit ==
    /\ idle
    /\ grid = createInitialGrid(INITIAL_rewardStep)
    /\ call \in [row : Rows, col : Cols, action : Action, isStochastic : BOOLEAN, rand : Rands]
    /\ ret = <<>>

callGetNextState ==
    /\ ret = <<>>
    /\ ret' = <<getNextState(grid, call.row, call.col, call.action, call.isStochastic, call.rand)>>
    /\ UNCHANGED <<activeTab, grid, agent, iteration, lastStep, stepsLeft, call>>

SpecTransition == TransitionInit /\ [][callGetNextState]_vars

----------------------------------------------------------------------------
(* performValueIterationStep as a function: sweeps from createInitialGrid,  *)
(* each fed the grid the sweep before returned.  After a sweep, grid is the *)
(* grid object that was passed in and ret holds the grid returned.          *)

\* gamma in tenths, the step reward in hundredths
Gammas == {1, 5, 9, 10}
StepRewards == {-4, 0}

SweepInit ==
    /\ idle
    /\ call \in [gamma : Gammas, stepReward : StepRewards]
    /\ grid = createInitialGrid(call.stepReward)
    /\ ret = <<>>

\* the grid the next sweep is passed
sweepInput == IF ret = <<>> THEN grid ELSE ret[1]

callPerformValueIterationStep ==
    /\ iteration < MaxSweeps
    /\ LET out == performValueIterationStep(sweepInput, call.gamma)
       IN /\ grid' = out.grid
          /\ ret' = <<out.newGrid>>
    /\ iteration' = iteration + 1
    /\ UNCHANGED <<activeTab, agent, lastStep, stepsLeft, call>>

SpecSweep == SweepInit /\ [][callPerformValueIterationStep]_vars

----------------------------------------------------------------------------
(* updateQLearning and updateSARSA as functions: one call on a grid whose   *)
(* cells s and sPrime hold drawn action-values.  call.grid keeps the grid   *)
(* as it was passed in; grid is that object as the call leaves it.           *)

OpenCells == {s \in [r : Rows, c : Cols] :
                createInitialGrid(INITIAL_rewardStep)[s.r][s.c].type \in {"EMPTY", "START"}}

\* the cells a move from s can end in
Successors(s) ==
    {[r |-> n.nextRow, c |-> n.nextCol] :
        n \in {getNextState(createInitialGrid(INITIAL_rewardStep), s.r, s.c, a, FALSE, 0) : a \in Action}}

\* the action-values drawn: none is 0, the value of a cell never updated
QVals == {-(Scale \div 4), Scale \div 2}

\* alpha and gamma in tenths
Rates == {[alpha |-> 1, gamma |-> 9], [alpha |-> 5, gamma |-> 10]}

\* grid g with the action-values q at cell s, and the utility and policy an update leaves with them
withQ(g, s, q) ==
    LET g2 == [g EXCEPT ![s.r][s.c].qValues = q, ![s.r][s.c].utility = maxQValue(q)]
    IN IF q = ZeroQ THEN g2
       ELSE [g2 EXCEPT ![s.r][s.c].policy = getGreedyAction(g2[s.r][s.c], 0)]

UpdateInit ==
    /\ idle
    /\ \E op \in {"updateQLearning", "updateSARSA"} :
       \E s \in OpenCells : \E sPrime \in Successors(s) :
       \E a \in Action : \E oldQ \in QVals \cup {0} : \E qPrime \in [Action -> QVals] :
       \E aPrime \in (IF op = "updateSARSA" THEN Action ELSE {NULL}) :
       \E rates \in Rates :
         LET g0 == createInitialGrid(INITIAL_rewardStep) IN
         /\ s = sPrime => oldQ = 0
         /\ grid = IF s = sPrime THEN withQ(g0, s, qPrime)
                   ELSE withQ(withQ(g0, sPrime, qPrime), s, [ZeroQ EXCEPT ![a] = oldQ])
         /\ call = [op |-> op, s |-> s, a |-> a, r |-> g0[sPrime.r][sPrime.c].reward,
                    sPrime |-> sPrime, aPrime |-> aPrime,
                    alpha |-> rates.alpha, gamma |-> rates.gamma, grid |-> grid]
    /\ ret = <<>>

callUpdateQLearning ==
    /\ ret = <<>>
    /\ call.op = "updateQLearning"
    /\ grid' \in {updateQLearning(grid, call.s, call.a, call.r, call.sPrime,
                                  call.alpha, call.gamma, tie) : tie \in Rands}
    /\ ret' = <<grid'>>
    /\ UNCHANGED <<activeTab, agent, iteration, lastStep, stepsLeft, call>>

callUpdateSARSA ==
    /\ ret = <<>>
    /\ call.op = "updateSARSA"
    /\ grid' \in {updateSARSA(grid, call.s, call.a, call.r, call.sPrime, call.aPrime,
                              call.alpha, call.gamma, tie) : tie \in Rands}
    /\ ret' = <<grid'>>
    /\ UNCHANGED <<activeTab, agent, iteration, lastStep, stepsLeft, call>>

UpdateNext ==
    \/ callUpdateQLearning
    \/ callUpdateSARSA

SpecUpdate == UpdateInit /\ [][UpdateNext]_vars

----------------------------------------------------------------------------
(* getGreedyAction and getEpsilonGreedyAction as functions: one call on a   *)
(* cell holding drawn action-values, for every draw.  For getGreedyAction   *)
(* rand2 is its one draw.                                                    *)

\* the action-values drawn for the cell: ties of two, three and four actions occur
SelectQVals == {-(Scale \div 4), 0, Scale \div 2}

\* epsilon in tenths
Epsilons == {0, 2, 10}

SelectInit ==
    /\ idle
    /\ grid = createInitialGrid(INITIAL_rewardStep)
    /\ \E op \in {"getGreedyAction", "getEpsilonGreedyAction"} :
       \E q \in [Action -> SelectQVals] :
       \E epsilon \in (IF op = "getEpsilonGreedyAction" THEN Epsilons ELSE {0}) :
       \E rand1 \in (IF op = "getEpsilonGreedyAction" THEN Rands ELSE {0}) :
       \E rand2 \in Rands :
         call = [op |-> op, cell |-> [grid[2][0] EXCEPT !.qValues = q],
                 epsilon |-> epsilon, rand1 |-> rand1, rand2 |-> rand2]
    /\ ret = <<>>

callGetGreedyAction ==
    /\ ret = <<>>
    /\ call.op = "getGreedyAction"
    /\ ret' = <<getGreedyAction(call.cell, call.rand2)>>
    /\ UNCHANGED <<activeTab, grid, agent, iteration, lastStep, stepsLeft, call>>

callGetEpsilonGreedyAction ==
    /\ ret = <<>>
    /\ call.op = "getEpsilonGreedyAction"
    /\ ret' = <<getEpsilonGreedyAction(call.cell, call.epsilon, call.rand1, call.rand2)>>
    /\ UNCHANGED <<activeTab, grid, agent, iteration, lastStep, stepsLeft, call>>

SelectNext ==
    \/ callGetGreedyAction
    \/ callGetEpsilonGreedyAction

SpecSelect == SelectInit /\ [][SelectNext]_vars

----------------------------------------------------------------------------
(* Properties of getNextState (SpecTransition) *)

\* C1: from every in-bounds cell, for every action, in deterministic mode and
\* in stochastic mode for every draw, getNextState returns a cell of the grid:
\* 0 <= nextRow < ROWS and 0 <= nextCol < COLS.
C1_TransitionBounded ==
    ret /= <<>> =>
        /\ 0 <= ret[1].nextRow /\ ret[1].nextRow < ROWS
        /\ 0 <= ret[1].nextCol /\ ret[1].nextCol < COLS

\* a stochastic call from the corner (2,3) that slips off the grid and stays
C1_Witness ==
    /\ ret /= <<>>
    /\ call.isStochastic /\ call.row = 2 /\ call.col = 3 /\ call.action = "UP"
    /\ intendedAction(call.action, TRUE, call.rand) = "RIGHT"
    /\ ret[1] = [nextRow |-> 2, nextCol |-> 3]

\* the cell one move in direction a from (row, col) is a WALL cell of the grid
wallAhead(row, col, a) ==
    /\ row + dRow(a) \in Rows
    /\ col + dCol(a) \in Cols
    /\ grid[row + dRow(a)][col + dCol(a)].type = "WALL"

\* C2: in deterministic mode, from a non-WALL cell next to a WALL cell, the
\* action that points into the WALL returns the origin; and in either mode,
\* from a non-WALL cell, getNextState never returns a WALL cell.
C2_WallImpervious ==
    (ret /= <<>> /\ grid[call.row][call.col].type /= "WALL") =>
        /\ (~call.isStochastic /\ wallAhead(call.row, call.col, call.action))
              => ret[1] = [nextRow |-> call.row, nextCol |-> call.col]
        /\ ret[1].nextRow \in Rows
        /\ ret[1].nextCol \in Cols
        /\ grid[ret[1].nextRow][ret[1].nextCol].type /= "WALL"

\* a deterministic move from (1,0) to the right, into the WALL at (1,1)
C2_Witness ==
    /\ ret /= <<>>
    /\ ~call.isStochastic /\ call.row = 1 /\ call.col = 0 /\ call.action = "RIGHT"
    /\ wallAhead(1, 0, "RIGHT")
    /\ ret[1] = [nextRow |-> 1, nextCol |-> 0]

----------------------------------------------------------------------------
(* Properties of performValueIterationStep (SpecSweep) *)

\* C3: after n >= 1 sweeps from createInitialGrid, for any gamma, the utility
\* of each TERMINAL cell is its own reward: +1 at (0,3) and -1 at (1,3).
C3_TerminalPinned ==
    iteration >= 1 =>
        /\ \A r \in Rows, c \in Cols :
              ret[1][r][c].type = "TERMINAL" => ret[1][r][c].utility = ret[1][r][c].reward
        /\ ret[1][0][3].type = "TERMINAL" /\ ret[1][0][3].utility = Scale
        /\ ret[1][1][3].type = "TERMINAL" /\ ret[1][1][3].utility = -Scale

\* three sweeps with gamma = 1, after which the cells next to the terminals have moved
C3_Witness ==
    /\ iteration = 3
    /\ call.gamma = 10
    /\ ret[1][0][3].utility = Scale
    /\ ret[1][1][3].utility = -Scale
    /\ ret[1][0][2].utility > 0

----------------------------------------------------------------------------
(* Properties of the driver (Spec, SpecEpisode) *)

\* the TERMINAL cells of the grid state
TerminalCells == {s \in [r : Rows, c : Cols] : grid[s.r][s.c].type = "TERMINAL"}

\* C4 as stated: in every reachable state of a simulation run, the fresh grid
\* included, the utility of every TERMINAL cell equals its fixed reward.
C4_AsStated ==
    \A s \in TerminalCells : grid[s.r][s.c].utility = grid[s.r][s.c].reward

\* C4, amended: the utility of every TERMINAL cell equals its fixed reward
\* once a value-iteration sweep has run since the last reset or tab switch,
\* and is 0, the value createInitialGrid gives it, in every other state: the
\* fresh grid and every state of the TD, Q-Learning and SARSA tabs.
C4_TerminalUtility ==
    \A s \in TerminalCells :
        grid[s.r][s.c].utility =
            IF activeTab = "MDP" /\ iteration >= 1 THEN grid[s.r][s.c].reward ELSE 0

\* a TD step has just entered the -1 terminal, whose utility is still 0
C4_Witness ==
    /\ activeTab = "TD_ADP"
    /\ lastStep /= <<>>
    /\ lastStep[1].nextRow = 1 /\ lastStep[1].nextCol = 3
    /\ grid[1][3].type = "TERMINAL" /\ grid[1][3].reward = -Scale
    /\ grid[1][3].utility = 0
    /\ grid[1][2].utility /= 0

\* C5: when the cell an RL step moves to is TERMINAL, the agent state the step
\* produces is {row 2, col 0, lastAction null, totalReward 0}; so the agent's
\* stored position is never a TERMINAL cell.
C5_EpisodeReset ==
    /\ (lastStep /= <<>> /\ grid[lastStep[1].nextRow][lastStep[1].nextCol].type = "TERMINAL")
          => agent = <<[row |-> 2, col |-> 0, lastAction |-> NULL, totalReward |-> 0]>>
    /\ agent /= <<>> => grid[agent[1].row][agent[1].col].type /= "TERMINAL"

\* a SARSA step has just entered the +1 terminal and the agent is back at START
C5_Witness ==
    /\ activeTab = "SARSA"
    /\ lastStep /= <<>>
    /\ lastStep[1].nextRow = 0 /\ lastStep[1].nextCol = 3
    /\ grid[0][3].type = "TERMINAL"
    /\ agent /= <<>>
    /\ agent[1].row = 2 /\ agent[1].col = 0 /\ agent[1].totalReward = 0
    /\ iteration = 5
    /\ grid[0][2].qValues["RIGHT"] > 0

----------------------------------------------------------------------------
(* Properties of updateQLearning and updateSARSA (SpecUpdate).  A product   *)
(* by alpha or gamma is rounded down to a multiple of 1/Scale, so the value *)
(* stored lies less than 2/Scale below the exact one; the two formulas      *)
(* compare 100 times the value stored with 100 times the exact value.       *)

\* 100 * (oldQ + alpha * (r + gamma * bootstrap - oldQ)), alpha and gamma in tenths
target100(oldQ, r, bootstrap, alpha, gamma) ==
    100 * oldQ + alpha * (10 * r + gamma * bootstrap - 10 * oldQ)

\* the value v stored for the exact value e100 / 100
storedFor(v, e100) == 100 * v <= e100 /\ e100 < 100 * v + 200

\* the largest of the four action-values of cell s of grid g
maxOfFour(g, s) ==
    CHOOSE m \in {g[s.r][s.c].qValues[b] : b \in Action} :
        \A b \in Action : g[s.r][s.c].qValues[b] <= m

\* C6: updateQLearning sets Q(s,a) to oldQ + alpha*(r + gamma*M - oldQ), where
\* M is the maximum of the four action-values stored at s' when s' is not
\* TERMINAL and exactly 0 when s' is TERMINAL (not the terminal's reward); no
\* action chosen at s' enters the result.
C6_QLearningTarget ==
    (ret /= <<>> /\ call.op = "updateQLearning") =>
        LET oldQ == call.grid[call.s.r][call.s.c].qValues[call.a]
            M == IF call.grid[call.sPrime.r][call.sPrime.c].type = "TERMINAL" THEN 0
                 ELSE maxOfFour(call.grid, call.sPrime)
        IN storedFor(ret[1][call.s.r][call.s.c].qValues[call.a],
                     target100(oldQ, call.r, M, call.alpha, call.gamma))

\* a Q-Learning update for a move from (1,2) into the -1 terminal, whose stored
\* action-values are not 0
C6_Witness ==
    /\ ret /= <<>>
    /\ call.op = "updateQLearning"
    /\ call.s = [r |-> 1, c |-> 2]
    /\ call.sPrime = [r |-> 1, c |-> 3]
    /\ call.grid[1][3].type = "TERMINAL"
    /\ maxOfFour(call.grid, call.sPrime) = Scale \div 2
    /\ call.r = -Scale
    /\ ret[1][1][2].qValues[call.a] < call.grid[1][2].qValues[call.a]

\* C7: updateSARSA sets Q(s,a) to oldQ + alpha*(r + gamma*B - oldQ), where B is
\* the stored Q(s',a') of the a' supplied when s' is not TERMINAL and 0 when it
\* is; and with s' not TERMINAL and alpha, gamma > 0, an a' of lower Q(s',a')
\* in place of the one supplied gives a lower Q(s,a).
C7_SarsaTarget ==
    (ret /= <<>> /\ call.op = "updateSARSA") =>
        LET oldQ == call.grid[call.s.r][call.s.c].qValues[call.a]
            terminal == call.grid[call.sPrime.r][call.sPrime.c].type = "TERMINAL"
            B == IF terminal THEN 0
                 ELSE call.grid[call.sPrime.r][call.sPrime.c].qValues[call.aPrime]
            newQ == ret[1][call.s.r][call.s.c].qValues[call.a]
        IN /\ storedFor(newQ, target100(oldQ, call.r, B, call.alpha, call.gamma))
           /\ (~terminal /\ call.alpha > 0 /\ call.gamma > 0) =>
                 \A lower \in Action :
                    call.grid[call.sPrime.r][call.sPrime.c].qValues[lower] < B =>
                       updateSARSA(call.grid, call.s, call.a, call.r, call.sPrime, lower,
                                   call.alpha, call.gamma, 0)[call.s.r][call.s.c].qValues[call.a]
                          < newQ

\* a SARSA update whose a' is UP, a best action of the non-terminal s', where
\* DOWN is worse: with DOWN for a', the update would store less
C7_Witness ==
    /\ ret /= <<>>
    /\ call.op = "updateSARSA"
    /\ call.grid[call.sPrime.r][call.sPrime.c].type /= "TERMINAL"
    /\ call.s /= call.sPrime
    /\ call.aPrime = "UP"
    /\ call.grid[call.sPrime.r][call.sPrime.c].qValues["UP"] = Scale \div 2
    /\ call.grid[call.sPrime.r][call.sPrime.c].qValues["DOWN"] = -(Scale \div 4)
    /\ updateSARSA(call.grid, call.s, call.a, call.r, call.sPrime, "DOWN",
                   call.alpha, call.gamma, 0)[call.s.r][call.s.c].qValues[call.a]
          < ret[1][call.s.r][call.s.c].qValues[call.a]

----------------------------------------------------------------------------
(* SARSA in the driver (Spec) *)

\* C8: in the SARSA tab, when a step lands in a non-terminal cell s', the next
\* action a' it supplies to updateSARSA is the action the agent executes on
\* its following step from s'.
C8_SarsaOnPolicy ==
    [][ ( /\ activeTab = "SARSA" /\ activeTab' = "SARSA"
          /\ lastStep /= <<>> /\ lastStep' /= <<>>
          /\ iteration' = iteration + 1
          /\ grid[lastStep[1].nextRow][lastStep[1].nextCol].type /= "TERMINAL" )
        => lastStep'[1].action = lastStep[1].nextAction ]_vars

----------------------------------------------------------------------------
(* Value iteration on the canonical grid (SpecSweep) *)

\* C9: from the canonical grid (step reward -0.04) with gamma 0.9, after 100
\* sweeps the policy at (2,0) is neither LEFT nor DOWN, the two directions
\* that leave the grid, and the utility at (0,2) is greater than at (2,0).
C9_Convergence ==
    (call.gamma = 9 /\ call.stepReward = -4 /\ iteration = 100) =>
        /\ ret[1][2][0].policy \notin {"LEFT", "DOWN"}
        /\ ret[1][0][2].utility > ret[1][2][0].utility

\* the 100th sweep with gamma 0.9: (2,0) points UP and (0,2) points RIGHT
C9_Witness ==
    /\ call.gamma = 9 /\ call.stepReward = -4 /\ iteration = 100
    /\ ret[1][2][0].policy = "UP"
    /\ ret[1][0][2].policy = "RIGHT"
    /\ ret[1][0][2].utility > ret[1][2][0].utility + Scale \div 10

\* the cell a deterministic move a from (r, c) ends in, in grid g
destOf(g, r, c, a) ==
    LET n == getNextState(g, r, c, a, FALSE, 0) IN g[n.nextRow][n.nextCol]

\* the expected utility of action a at (r, c), read from grid g: 0.8 of the
\* cell ahead, 0.1 of the cell to either side
expectedOf(g, r, c, a) ==
    LET sides == IF a \in {"UP", "DOWN"} THEN {"LEFT", "RIGHT"} ELSE {"UP", "DOWN"}
        side1 == CHOOSE x \in sides : TRUE
        side2 == CHOOSE x \in sides : x /= side1
    IN (8 * destOf(g, r, c, a).utility) \div 10
       + destOf(g, r, c, side1).utility \div 10
       + destOf(g, r, c, side2).utility \div 10

\* C10: a sweep is synchronous.  For every non-WALL, non-TERMINAL cell the new
\* utility is reward + gamma * max over the four actions of the expected
\* utility read from the grid passed in, never from a value the same sweep
\* wrote; the new policy is the first maximizing action in the order UP, DOWN,
\* LEFT, RIGHT; and the grid passed in is left as it was.
C10_SynchronousSweep ==
    [][ LET in == sweepInput
            out == ret'[1]
        IN /\ grid' = in
           /\ \A r \in Rows, c \in Cols :
                in[r][c].type \notin {"WALL", "TERMINAL"} =>
                  \E i \in 1 .. 4 :
                    LET best == expectedOf(in, r, c, ActionList[i])
                    IN /\ \A j \in 1 .. 4 : expectedOf(in, r, c, ActionList[j]) <= best
                       /\ \A j \in 1 .. (i - 1) : expectedOf(in, r, c, ActionList[j]) < best
                       /\ out[r][c].policy = ActionList[i]
                       /\ out[r][c].utility = in[r][c].reward + (call.gamma * best) \div 10
      ]_vars

\* after the third sweep the grid returned differs from the grid passed in,
\* and (0,1), swept before (0,2), has taken its value from the old (0,2)
C10_Witness ==
    /\ iteration = 3
    /\ call.gamma = 9 /\ call.stepReward = -4
    /\ grid /= ret[1]
    /\ grid[0][2].utility > 0
    /\ ret[1][0][2].utility > grid[0][2].utility
    /\ ret[1][0][1].utility = grid[0][1].reward + (9 * expectedOf(grid, 0, 1, "RIGHT")) \div 10
    /\ ret[1][0][1].policy = "RIGHT"

----------------------------------------------------------------------------
(* Frame of the learning steps (SpecEpisode) *)

\* a step of the driver in which stepRL ran an update
learningStep ==
    /\ activeTab /= "MDP" /\ activeTab' = activeTab
    /\ agent /= <<>>
    /\ lastStep' /= <<>>
    /\ iteration' = iteration + 1

\* C11: the cell a learning step (TD(0), Q-Learning or SARSA) writes is the
\* agent's pre-step cell, which is in bounds and of type EMPTY or START; no
\* field of a WALL or TERMINAL cell is changed by a learning step.
C11_WritesOnlyAgentCell ==
    [][ learningStep =>
          /\ agent[1].row \in Rows /\ agent[1].col \in Cols
          /\ grid[agent[1].row][agent[1].col].type \in {"EMPTY", "START"}
          /\ \A r \in Rows, c \in Cols :
                (r /= agent[1].row \/ c /= agent[1].col) => grid'[r][c] = grid[r][c]
          /\ \A r \in Rows, c \in Cols :
                grid[r][c].type \in {"WALL", "TERMINAL"} => grid'[r][c] = grid[r][c]
      ]_vars

\* a Q-Learning step has just moved from (0,2) into the +1 terminal: (0,2)
\* holds a new action-value, the terminal and the WALL are as constructed
C11_Witness ==
    /\ activeTab = "Q_LEARNING"
    /\ lastStep /= <<>>
    /\ lastStep[1].nextRow = 0 /\ lastStep[1].nextCol = 3
    /\ grid[0][2].qValues[lastStep[1].action] > 0
    /\ grid[0][3].type = "TERMINAL"
    /\ grid[0][3].utility = 0 /\ grid[0][3].qValues = ZeroQ /\ grid[0][3].policy = NULL
    /\ grid[1][1].type = "WALL"
    /\ grid[1][1].utility = 0 /\ grid[1][1].qValues = ZeroQ /\ grid[1][1].policy = NULL

----------------------------------------------------------------------------
(* The display fields in the control tabs (SpecEpisode) *)

\* C12: in the Q-Learning and SARSA tabs, every cell's utility is the maximum
\* of its four action-values, and its policy is either null, on a cell never
\* updated, or an action whose action-value is that maximum.
C12_DerivedFields ==
    activeTab \in {"Q_LEARNING", "SARSA"} =>
        \A r \in Rows, c \in Cols :
            LET cell == grid[r][c]
                best == CHOOSE m \in {cell.qValues[a] : a \in Action} :
                            \A a \in Action : cell.qValues[a] <= m
            IN /\ cell.utility = best
               /\ \/ cell.policy = NULL /\ cell.qValues = ZeroQ
                  \/ cell.policy \in Action /\ cell.qValues[cell.policy] = best

\* a SARSA step has just moved from (1,2) into the -1 terminal: RIGHT is now
\* the worst action of (1,2), whose utility stays 0 and whose policy is another action
C12_Witness ==
    /\ activeTab = "SARSA"
    /\ lastStep /= <<>>
    /\ lastStep[1].action = "RIGHT"
    /\ lastStep[1].nextRow = 1 /\ lastStep[1].nextCol = 3
    /\ grid[1][2].qValues["RIGHT"] < -(Scale \div 20)
    /\ grid[1][2].utility = 0
    /\ grid[1][2].policy \in {"UP", "DOWN", "LEFT"}
    /\ grid[2][2].policy /= NULL

----------------------------------------------------------------------------
(* The TD(0) step (SpecEpisode) *)

\* C13: a TD(0) step from cell s to s' with reward r, the reward of s', sets
\* utility(s) to U(s) + alpha*(r + gamma*U' - U(s)), where U' is the reward of
\* s' if s' is TERMINAL and the stored utility of s' otherwise, and changes
\* nothing else in the grid: no qValues, no policy, no reward, no other field
\* of s and no other cell.
C13_TDStep ==
    [][ (learningStep /\ activeTab = "TD_ADP") =>
          LET sr == agent[1].row
              sc == agent[1].col
              nextCell == grid[lastStep'[1].nextRow][lastStep'[1].nextCol]
              r == nextCell.reward
              U1 == IF nextCell.type = "TERMINAL" THEN nextCell.reward ELSE nextCell.utility
          IN /\ storedFor(grid'[sr][sc].utility,
                          target100(grid[sr][sc].utility, r, U1, INITIAL_alpha, INITIAL_gamma))
             /\ grid' = [grid EXCEPT ![sr][sc].utility = grid'[sr][sc].utility]
      ]_vars

\* a TD step has just moved from (0,2), never updated before, into the +1
\* terminal: utility(0,2) is 0.1 * (1 + 0.9 * 1), the rest of the cell is as constructed
C13_Witness ==
    /\ activeTab = "TD_ADP"
    /\ lastStep /= <<>>
    /\ lastStep[1].nextRow = 0 /\ lastStep[1].nextCol = 3
    /\ iteration = 5
    /\ grid[0][2].utility > (Scale \div 10) + (Scale \div 20)
    /\ grid[0][2].qValues = ZeroQ
    /\ grid[0][2].policy = NULL
    /\ grid[0][3].utility = 0

----------------------------------------------------------------------------
(* The direction getNextState executes (SpecTransition) *)

\* the two actions orthogonal to a
sidesOf(a) == IF a \in {"UP", "DOWN"} THEN {"LEFT", "RIGHT"} ELSE {"UP", "DOWN"}

\* C14: in stochastic mode, for every intended action and every draw, the
\* direction getNextState executes is the intended action or one of its two
\* orthogonal actions ({LEFT, RIGHT} for UP and DOWN, {UP, DOWN} for LEFT and
\* RIGHT), never the opposite one, and each of the three is executed for some
\* draw; in deterministic mode it is always the intended action.  The cell
\* returned is the origin or the cell one move away in such a direction.
C14_ExecutedDirection ==
    ret /= <<>> =>
        LET a == call.action
            allowed == IF call.isStochastic THEN {a} \cup sidesOf(a) ELSE {a}
        IN /\ intendedAction(a, call.isStochastic, call.rand) \in allowed
           /\ \/ ret[1] = [nextRow |-> call.row, nextCol |-> call.col]
              \/ \E d \in allowed :
                    ret[1] = [nextRow |-> call.row + dRow(d), nextCol |-> call.col + dCol(d)]
           /\ \A d \in {a} \cup sidesOf(a) :
                 \E k \in Rands : intendedAction(a, TRUE, k) = d
           /\ \A k \in Rands : intendedAction(a, FALSE, k) = a

\* a stochastic call from (2,2) with action UP whose draw slips: the cell
\* returned is (2,1), one move to the LEFT
C14_Witness ==
    /\ ret /= <<>>
    /\ call.isStochastic /\ call.row = 2 /\ call.col = 2 /\ call.action = "UP"
    /\ call.rand * 10 > 9 * RandScale
    /\ ret[1] = [nextRow |-> 2, nextCol |-> 1]

----------------------------------------------------------------------------
(* Action selection (SpecSelect) *)

\* the actions whose qValue is the maximum of the cell's four qValues
maximalActions(cell) ==
    {a \in Action : \A b \in Action : cell.qValues[b] <= cell.qValues[a]}

\* C15: getGreedyAction returns only actions whose qValue is the maximum of
\* the cell's four qValues, and every action of that tied set is returned for
\* some draw; getEpsilonGreedyAction with epsilon = 0 returns only such
\* maximal actions, and with epsilon > 0 every one of the four actions is
\* returned for some draws.
C15_GreedySelection ==
    ret /= <<>> =>
        LET best == maximalActions(call.cell) IN
        /\ call.op = "getGreedyAction" =>
              /\ ret[1] \in best
              /\ \A a \in best : \E k \in Rands : getGreedyAction(call.cell, k) = a
        /\ (call.op = "getEpsilonGreedyAction" /\ call.epsilon = 0) =>
              ret[1] \in best
        /\ (call.op = "getEpsilonGreedyAction" /\ call.epsilon > 0) =>
              /\ ret[1] \in Action
              /\ \A a \in Action : \E k1 \in Rands : \E k2 \in Rands :
                    getEpsilonGreedyAction(call.cell, call.epsilon, k1, k2) = a

\* getGreedyAction on a cell where DOWN and RIGHT tie for the maximum
\* returned RIGHT, the later of the two in ACTIONS
C15_Witness ==
    /\ ret /= <<>>
    /\ call.op = "getGreedyAction"
    /\ call.cell.qValues = [UP |-> 0, DOWN |-> Scale \div 2,
                            LEFT |-> -(Scale \div 4), RIGHT |-> Scale \div 2]
    /\ ret[1] = "RIGHT"

====
